---- MODULE Spec2Model ----
(***************************************************************************)
(* Model of scanner.py: the S&P 500 bullish-engulfing scanner.             *)
(*                                                                         *)
(* Prices, ratios and percentages are Python floats in the source.  They   *)
(* are modelled as exact rationals <<numerator, denominator>> with a       *)
(* positive denominator; NaN (an unfilled rolling window) is <<0, 0>>.     *)
(* Dates are proleptic Gregorian ordinals (date.toordinal()).              *)
(***************************************************************************)
EXTENDS Integers, Sequences, FiniteSets, TLC

VARIABLES
    pc,           \* main: "start", "scan", "done", "nocreds", "aborted"
    i,            \* main: number of tickers of the list already scanned
    signals,      \* main: the list `signals`
    outcomes,     \* per scanned ticker, where check_bullish_engulfing left
    evalCount,    \* per ticker, the number of check_bullish_engulfing calls
    cur,          \* the latest check_bullish_engulfing call: input and locals
    today,        \* get_option_expirations: parameter `today`
    days_ahead,   \* get_option_expirations: local `days_ahead`
    expirations,  \* get_option_expirations: local `expirations`
    expPc,        \* get_option_expirations: "idle", "loop", "returned", "raised"
    expResult,    \* get_option_expirations: the returned list
    ratingIn,     \* calculate_rating: the arguments of the latest call
    ratingOut,    \* calculate_rating: its result
    strikeIn,     \* suggest_strikes: current_price of the latest call
    strikeOut     \* suggest_strikes: its result

vars == <<pc, i, signals, outcomes, evalCount, cur, today, days_ahead,
          expirations, expPc, expResult, ratingIn, ratingOut, strikeIn, strikeOut>>

scanVars == <<pc, i, signals, outcomes, evalCount, cur>>
expVars == <<today, days_ahead, expirations, expPc, expResult>>
ratingVars == <<ratingIn, ratingOut>>
strikeVars == <<strikeIn, strikeOut>>

\* Python's None, as a record so that it compares with the dicts it stands in for.
None == [none |-> TRUE]

----------------------------------------------------------------------------
(* Bounds of the model.                                                    *)

\* Last ordinal the date type can hold.  datetime.max is 9999-12-31
\* (ordinal 3652059); the model keeps the same overflow behaviour on a
\* shorter calendar.
MaxOrdinal == 90

\* Number of tickers in the list main scans.
NumTickers == 2

\* calculate_rating input grids: body size in quarter percents 0..MaxBodyQ/4,
\* volume ratio in twentieths 1.0..1.0+MaxVolStep/20, MA distance in whole
\* percents -MaxDistDown..2 plus the -999 sentinel.
MaxBodyQ == 16
MaxVolStep == 12
MaxDistDown == 22

\* suggest_strikes input grid: prices in quarter dollars up to MaxPriceQ/4.
MaxPriceQ == 900

----------------------------------------------------------------------------
(* Exact rational arithmetic standing for the float arithmetic.            *)

Abs(n) == IF n < 0 THEN -n ELSE n

RECURSIVE GCD(_, _)
GCD(a, b) == IF b = 0 THEN a ELSE GCD(b, a % b)

NaN == <<0, 0>>
IsNaN(r) == r[2] = 0

RNorm(n, d) ==
    LET g == GCD(Abs(n), Abs(d))
        s == IF d < 0 THEN -1 ELSE 1
    IN IF g = 0 THEN <<0, 1>> ELSE <<s * (n \div g), s * (d \div g)>>

R(n, d) == RNorm(n, d)
RInt(n) == <<n, 1>>

\* Sums over the least common denominator, products after cancelling across,
\* so that intermediate integers stay small.
RAdd(a, b) ==
    LET g == GCD(a[2], b[2])
    IN RNorm(a[1] * (b[2] \div g) + b[1] * (a[2] \div g), (a[2] \div g) * b[2])
RNeg(a) == <<-a[1], a[2]>>
RSub(a, b) == RAdd(a, RNeg(b))
RMul(a, b) ==
    LET x == RNorm(a[1], b[2])
        y == RNorm(b[1], a[2])
    IN RNorm(x[1] * y[1], x[2] * y[2])
RInv(a) == IF a[1] < 0 THEN <<-a[2], -a[1]>> ELSE <<a[2], a[1]>>
RDiv(a, b) == RMul(a, RInv(b))
RLt(a, b) == a[1] * b[2] < b[1] * a[2]
RLe(a, b) == a[1] * b[2] <= b[1] * a[2]
RGt(a, b) == RLt(b, a)
RGe(a, b) == RLe(b, a)
RAbs(a) == <<Abs(a[1]), a[2]>>
RMax(a, b) == IF RGe(a, b) THEN a ELSE b
RMin(a, b) == IF RLe(a, b) THEN a ELSE b

\* Python's round(x): to the nearest integer, ties to the even one.
PyRound(x) ==
    LET q == x[1] \div x[2]
        r2 == 2 * (x[1] % x[2])
    IN IF r2 < x[2] THEN q
       ELSE IF r2 > x[2] THEN q + 1
       ELSE IF q % 2 = 0 THEN q ELSE q + 1

\* Python's round(x, 2): to the nearest hundredth.
Round2(x) == R(PyRound(RMul(x, RInt(100))), 100)

\* Python's round(x, 1): to the nearest tenth.
Round1(x) == R(PyRound(RMul(x, RInt(10))), 10)

----------------------------------------------------------------------------
(* calculate_rating                                                        *)

\* VolumeScore with the 1.3 tier scored below the 1.2 tier.
VolumeScoreSwapped(volume_ratio) ==
    IF RGe(volume_ratio, R(15, 10)) THEN RInt(2)
    ELSE IF RGe(volume_ratio, R(13, 10)) THEN R(5, 10)
    ELSE IF RGe(volume_ratio, R(12, 10)) THEN RInt(1)
    ELSE RInt(0)

VolumeScore(volume_ratio) ==
    IF RGe(volume_ratio, R(15, 10)) THEN RInt(2)
    ELSE IF RGe(volume_ratio, R(13, 10)) THEN R(15, 10)
    ELSE IF RGe(volume_ratio, R(12, 10)) THEN RInt(1)
    ELSE RInt(0)

BodyScore(body_size_pct) ==
    IF RGe(body_size_pct, RInt(3)) THEN RInt(2)
    ELSE IF RGe(body_size_pct, RInt(2)) THEN R(15, 10)
    ELSE IF RGe(body_size_pct, R(15, 10)) THEN RInt(1)
    ELSE IF RGe(body_size_pct, RInt(1)) THEN R(5, 10)
    ELSE RInt(0)

MaScore(distance_from_ma) ==
    IF RGt(distance_from_ma, RInt(-10)) THEN RInt(1)
    ELSE IF RGt(distance_from_ma, RInt(-15)) THEN R(7, 10)
    ELSE IF RGt(distance_from_ma, RInt(-20)) THEN R(4, 10)
    ELSE RInt(0)

StarsOf(score) ==
    IF RGe(score, R(45, 10)) THEN 5
    ELSE IF RGe(score, R(35, 10)) THEN 4
    ELSE IF RGe(score, R(25, 10)) THEN 3
    ELSE IF RGe(score, R(15, 10)) THEN 2
    ELSE 1

calculate_rating(body_size_pct, volume_ratio, distance_from_ma) ==
    LET score == RAdd(RAdd(VolumeScore(volume_ratio), BodyScore(body_size_pct)),
                      MaScore(distance_from_ma))
    IN StarsOf(score)

----------------------------------------------------------------------------
(* suggest_strikes                                                         *)

StrikeIncrement(current_price) ==
    IF RLt(current_price, RInt(50)) THEN R(25, 10)
    ELSE IF RLt(current_price, RInt(200)) THEN RInt(5)
    ELSE RInt(10)

suggest_strikes(current_price, target_price) ==
    LET increment == StrikeIncrement(current_price)
        atm_strike == RMul(RInt(PyRound(RDiv(current_price, increment))), increment)
        itm_strike == RSub(atm_strike, increment)
        otm_strike == RAdd(atm_strike, increment)
    IN [ITM |-> Round2(itm_strike), ATM |-> Round2(atm_strike), OTM |-> Round2(otm_strike)]

----------------------------------------------------------------------------
(* get_option_expirations                                                  *)

\* date.weekday(): Monday is 0; ordinal 1 (0001-01-01) is a Monday.
Weekday(ordinal) == (ordinal + 6) % 7

\* One pass of `while len(expirations) < 4` on the locals
\* st = [today, days_ahead, expirations, expPc, expResult], or the return
\* once the loop condition is false.  today + timedelta(...) raises
\* OverflowError past the last date the type holds.  A date's '%Y-%m-%d'
\* text is kept as the ordinal it names.
ExpIter(st) ==
    IF Len(st.expirations) < 4
    THEN LET da == st.days_ahead + 1
             future_date == st.today + da
         IN IF future_date > MaxOrdinal
            THEN [st EXCEPT !.days_ahead = da, !.expPc = "raised"]
            ELSE IF Weekday(future_date) = 4
                    /\ 3 <= future_date - st.today
                    /\ future_date - st.today <= 14
                 THEN [st EXCEPT !.days_ahead = da,
                                 !.expirations = Append(st.expirations, future_date)]
                 ELSE [st EXCEPT !.days_ahead = da]
    ELSE [st EXCEPT !.expPc = "returned",
                    !.expResult = SubSeq(st.expirations, 1,
                                         IF Len(st.expirations) < 2
                                         THEN Len(st.expirations) ELSE 2)]

RECURSIVE ExpRun(_)
ExpRun(st) == IF st.expPc = "loop" THEN ExpRun(ExpIter(st)) ELSE st

\* The call as a whole: the returned list, or the exception it ends with.
get_option_expirations(t) ==
    LET fin == ExpRun([today |-> t, days_ahead |-> 0, expirations |-> <<>>,
                       expPc |-> "loop", expResult |-> <<>>])
    IN IF fin.expPc = "returned"
       THEN [raised |-> "none", value |-> fin.expResult]
       ELSE [raised |-> "OverflowError", value |-> <<>>]

Todays == 1..7

----------------------------------------------------------------------------
(* check_bullish_engulfing                                                 *)

\* What stock.history(period='60d') hands back, as far as the function reads
\* it: whether the fetch raises, the number of rows, the last five rows, and
\* the sums of the earlier rows inside the rolling windows that end at the
\* last row (19 volumes, 13 true ranges, 45 closes).
Px(mills) == R(mills, 1000)

Bar(o, h, l, c) == [Open |-> Px(o), High |-> Px(h), Low |-> Px(l), Close |-> Px(c)]

RedBar == Bar(1010, 1010, 1005, 1005)
GreenBar == Bar(1005, 1010, 1005, 1010)

\* The three rows before the previous one.
OlderBars == {<<RedBar, RedBar, RedBar>>, <<RedBar, RedBar, GreenBar>>,
              <<GreenBar, RedBar, RedBar>>, <<RedBar, GreenBar, GreenBar>>}

PrevBars == {Bar(1005, 1005, 1001, 1001), Bar(990, 1001, 990, 1001),
             Bar(1020, 1020, 1001, 1001), Bar(1005, 1005, 1000, 1000)}

LastBars == {Bar(1000, 1010, 1000, 1010), Bar(1000, 1035, 995, 1030),
             Bar(1000, 1009, 1000, 1009), Bar(1000, 1000, 995, 995)}

\* The last row's volume, and the sum of the 19 volumes before it.
Volumes == {100, 120, 200}
PriorVolSums == {1880}

\* <<rows fetched, sum of the 13 true ranges before the last row, sum of the
\* 45 closes before the last five rows>>; the closes are read only when the
\* 50-row window is filled.
Histories == {<<24, Px(400), RInt(0)>>, <<25, Px(4), RInt(0)>>,
              <<50, Px(400), Px(45000)>>, <<50, Px(4), Px(58500)>>}

Windows == { [nbars |-> h[1], volume |-> v, priorVolSum |-> pv,
              priorTRSum |-> h[2], priorCloseSum |-> h[3]] :
             v \in Volumes, pv \in PriorVolSums, h \in Histories }

FetchError == [raises |-> TRUE, nbars |-> 0, recent |-> <<>>, volume |-> 0,
               priorVolSum |-> 0, priorTRSum |-> RInt(0), priorCloseSum |-> RInt(0)]

Sources ==
    {FetchError} \cup
    { [raises |-> FALSE, nbars |-> t.nbars, recent |-> o \o <<p, l>>,
       volume |-> t.volume, priorVolSum |-> t.priorVolSum,
       priorTRSum |-> t.priorTRSum, priorCloseSum |-> t.priorCloseSum] :
        o \in OlderBars, p \in PrevBars, l \in LastBars, t \in Windows }

\* df['MA_50'] at the last row: rolling(window=50).mean(), NaN on fewer rows.
MA50(src) ==
    IF src.nbars < 50 THEN NaN
    ELSE LET c(k) == src.recent[k].Close
             total == RAdd(src.priorCloseSum,
                           RAdd(RAdd(RAdd(c(1), c(2)), RAdd(c(3), c(4))), c(5)))
         IN RDiv(total, RInt(50))

\* df['TR'] at the last row.
TrueRange(last_day, prev_day) ==
    LET hl == RSub(last_day.High, last_day.Low)
        hpc == RAbs(RSub(last_day.High, prev_day.Close))
        lpc == RAbs(RSub(last_day.Low, prev_day.Close))
    IN RMax(hl, RMax(hpc, lpc))

\* df['ATR'] at the last row: rolling(window=14).mean() of TR.
ATR(src) ==
    RDiv(RAdd(src.priorTRSum, TrueRange(src.recent[5], src.recent[4])), RInt(14))

\* df['Avg_Volume'] at the last row: rolling(window=20).mean() of Volume.
AvgVolume(src) == RDiv(RInt(src.priorVolSum + src.volume), RInt(20))

RedDays(recent) ==
    Cardinality({k \in 1..4 : RLt(recent[k].Close, recent[k].Open)})

RedGateFails(red_days) == red_days < 3

\* is_bullish_engulfing without the open-below-previous-close test.
is_bullish_engulfing_NoOpenTest(last_day, prev_day) ==
    /\ RGt(last_day.Close, prev_day.Open)
    /\ RGt(last_day.Close, last_day.Open)

is_bullish_engulfing(last_day, prev_day) ==
    /\ RLt(last_day.Open, prev_day.Close)
    /\ RGt(last_day.Close, prev_day.Open)
    /\ RGt(last_day.Close, last_day.Open)

BodySizePct(last_day) ==
    RMul(RDiv(RSub(last_day.Close, last_day.Open), last_day.Open), RInt(100))

VolumeRatio(src) == RDiv(RInt(src.volume), AvgVolume(src))

\* BelowMinimum without the body-size test.
BelowMinimumVolumeOnly(body_size_pct, volume_ratio) ==
    RLt(volume_ratio, R(12, 10))

BelowMinimum(body_size_pct, volume_ratio) ==
    RLt(body_size_pct, RInt(1)) \/ RLt(volume_ratio, R(12, 10))

DistanceFromMa(current_price, ma_50) ==
    IF IsNaN(ma_50) THEN RInt(-999)
    ELSE RMul(RDiv(RSub(current_price, ma_50), ma_50), RInt(100))

Target1R(entry_price, atr) == RAdd(entry_price, RMul(R(15, 10), atr))
Target2R(entry_price, atr) == RAdd(entry_price, RMul(R(25, 10), atr))
\* StopLoss with the buffer added instead of subtracted.
StopLossAbove(last_day, atr) == RAdd(last_day.Low, RMul(R(15, 10), atr))

StopLoss(last_day, atr) == RSub(last_day.Low, RMul(R(15, 10), atr))

\* The locals of a call that has not got past its first line.
Locals(ticker, src) ==
    [ticker |-> ticker, src |-> src, stage |-> "entry", raised |-> "none",
     escaped |-> FALSE, ret |-> None, red_days |-> 0,
     body_size_pct |-> NaN, volume_ratio |-> NaN, distance_from_ma |-> NaN,
     rating |-> 0, atr |-> NaN, entry_price |-> NaN, target_1r |-> NaN,
     target_2r |-> NaN, stop_loss |-> NaN, today |-> 0]

\* The dict the function returns.
SignalRecord(ev, exp_dates, strikes) ==
    [ticker |-> ev.ticker,
     rating |-> ev.rating,
     current_price |-> Round2(ev.entry_price),
     entry_price |-> Round2(ev.entry_price),
     target_quick |-> Round2(ev.target_1r),
     target_extended |-> Round2(ev.target_2r),
     stop_loss |-> Round2(ev.stop_loss),
     body_size_pct |-> Round2(ev.body_size_pct),
     volume_ratio |-> Round2(ev.volume_ratio),
     distance_from_ma50 |-> Round1(ev.distance_from_ma),
     atr |-> Round2(ev.atr),
     exp_dates |-> exp_dates,
     suggested_strikes |-> strikes]

\* The body of the try block: the locals where it returned or raised.
\* With 25 rows or more df.tail(5) has 5 rows, so the len(recent) < 5 return
\* at line 73 is never taken.
TryBody(ticker, src, now) ==
    LET l0 == Locals(ticker, src) IN
    IF src.raises THEN [l0 EXCEPT !.stage = "fetch_error", !.raised = "FetchError"]
    ELSE IF src.nbars < 25 THEN [l0 EXCEPT !.stage = "short"]
    ELSE
    LET recent == src.recent
        red_days == RedDays(recent)
        l1 == [l0 EXCEPT !.red_days = red_days]
    IN
    IF RedGateFails(red_days) THEN [l1 EXCEPT !.stage = "red_gate"]
    ELSE
    LET last_day == recent[5]
        prev_day == recent[4]
    IN
    IF ~is_bullish_engulfing(last_day, prev_day) THEN [l1 EXCEPT !.stage = "shape_gate"]
    ELSE
    LET body_size_pct == BodySizePct(last_day)
        volume_ratio == VolumeRatio(src)
        l2 == [l1 EXCEPT !.body_size_pct = body_size_pct, !.volume_ratio = volume_ratio]
    IN
    IF BelowMinimum(body_size_pct, volume_ratio) THEN [l2 EXCEPT !.stage = "min_gate"]
    ELSE
    LET current_price == last_day.Close
        distance_from_ma == DistanceFromMa(current_price, MA50(src))
        rating == calculate_rating(body_size_pct, volume_ratio, distance_from_ma)
        atr == ATR(src)
        entry_price == current_price
        l3 == [l2 EXCEPT !.distance_from_ma = distance_from_ma,
                         !.rating = rating,
                         !.atr = atr,
                         !.entry_price = entry_price,
                         !.target_1r = Target1R(entry_price, atr),
                         !.target_2r = Target2R(entry_price, atr),
                         !.stop_loss = StopLoss(last_day, atr),
                         !.today = now]
        exp == get_option_expirations(now)
    IN
    IF exp.raised # "none"
    THEN [l3 EXCEPT !.stage = "plan_error", !.raised = exp.raised]
    ELSE [l3 EXCEPT !.stage = "signal",
                    !.ret = SignalRecord(l3, exp.value,
                                         suggest_strikes(current_price, l3.target_1r))]

\* An except clause that lets the exception go on to the caller.
ExceptHandlerReraise(ev) == [ev EXCEPT !.ret = None]

\* except Exception as e: print(...); return None
ExceptHandler(ev) == [ev EXCEPT !.ret = None, !.escaped = FALSE]

\* A raise nothing has caught yet.
Raise(ev) == [ev EXCEPT !.escaped = TRUE]

check_bullish_engulfing(ticker, src, now) ==
    LET ev == TryBody(ticker, src, now)
    IN IF ev.raised # "none" THEN ExceptHandler(Raise(ev)) ELSE ev

\* datetime.now() is read at line 130 only: the dates a call can see there,
\* and a single placeholder for a call that leaves before it.
Clock(src) == IF TryBody(0, src, 1).today # 0 THEN Todays ELSE {0}

----------------------------------------------------------------------------
(* main                                                                    *)

Tickers == [k \in 1..NumTickers |-> k]

\* What each ticker's call can come back with, over every fetch and clock:
\* the calls are tabulated once instead of at every step.
Calls ==
    [k \in 1..NumTickers |->
        UNION { {check_bullish_engulfing(Tickers[k], src, now) : now \in Clock(src)} :
                src \in Sources }]

NoCall == Locals(0, FetchError)

Idle ==
    /\ today = 0 /\ days_ahead = 0 /\ expirations = <<>> /\ expPc = "idle"
    /\ expResult = <<>>
    /\ ratingIn = <<>> /\ ratingOut = 0
    /\ strikeIn = NaN /\ strikeOut = None
    /\ pc = "start" /\ i = 0 /\ signals = <<>> /\ outcomes = <<>>
    /\ evalCount = [k \in 1..NumTickers |-> 0] /\ cur = NoCall

Init == Idle

\* main up to the scan loop: the credentials check.
Start ==
    /\ pc = "start"
    /\ \E creds \in BOOLEAN : pc' = IF creds THEN "scan" ELSE "nocreds"
    /\ UNCHANGED <<i, signals, outcomes, evalCount, cur>>
    /\ UNCHANGED <<expVars, ratingVars, strikeVars>>

\* One pass of `for i, ticker in enumerate(tickers)`.
ScanTicker ==
    /\ pc = "scan"
    /\ i < NumTickers
    /\ \E signal \in Calls[i + 1] :
         LET ticker == Tickers[i + 1]
         IN /\ cur' = signal
            /\ evalCount' = [evalCount EXCEPT ![ticker] = @ + 1]
            /\ outcomes' = Append(outcomes, signal.stage)
            /\ IF signal.escaped
               THEN pc' = "aborted" /\ UNCHANGED <<i, signals>>
               ELSE /\ pc' = pc
                    /\ i' = i + 1
                    /\ signals' = IF signal.ret # None
                                  THEN Append(signals, signal.ret) ELSE signals
    /\ UNCHANGED <<expVars, ratingVars, strikeVars>>

\* After the loop: format_email_body(signals), send_email(...).
Report ==
    /\ pc = "scan"
    /\ i = NumTickers
    /\ pc' = "done"
    /\ UNCHANGED <<i, signals, outcomes, evalCount, cur>>
    /\ UNCHANGED <<expVars, ratingVars, strikeVars>>

Next == Start \/ ScanTicker \/ Report

Spec == Init /\ [][Next]_vars

----------------------------------------------------------------------------
(* get_option_expirations, one loop pass at a time                         *)

ExpCall ==
    /\ expPc = "idle"
    /\ \E t \in Todays :
         /\ today' = t
         /\ days_ahead' = 0
         /\ expirations' = <<>>
         /\ expPc' = "loop"
    /\ UNCHANGED <<expResult, scanVars, ratingVars, strikeVars>>

ExpStep ==
    /\ expPc = "loop"
    /\ LET st == ExpIter([today |-> today, days_ahead |-> days_ahead,
                          expirations |-> expirations, expPc |-> expPc,
                          expResult |-> expResult])
       IN /\ days_ahead' = st.days_ahead
          /\ expirations' = st.expirations
          /\ expPc' = st.expPc
          /\ expResult' = st.expResult
    /\ UNCHANGED <<today, scanVars, ratingVars, strikeVars>>

NextExpirations == ExpCall \/ ExpStep

SpecExpirations == Init /\ [][NextExpirations]_vars

----------------------------------------------------------------------------
(* calculate_rating and suggest_strikes called on their own                *)

BodyGrid == {R(n, 4) : n \in 0..MaxBodyQ}
VolGrid == {R(20 + n, 20) : n \in 0..MaxVolStep}
DistGrid == {RInt(-999)} \cup {RInt(2 - n) : n \in 0..(MaxDistDown + 2)}

RateCall ==
    /\ ratingIn = <<>>
    /\ \E b \in BodyGrid, v \in VolGrid, d \in DistGrid :
         /\ ratingIn' = <<b, v, d>>
         /\ ratingOut' = calculate_rating(b, v, d)
    /\ UNCHANGED <<scanVars, expVars, strikeVars>>

NextRating == RateCall

SpecRating == Init /\ [][NextRating]_vars

PriceGrid == {R(n, 4) : n \in 1..MaxPriceQ}

StrikeCall ==
    /\ strikeOut = None
    /\ \E p \in PriceGrid :
         /\ strikeIn' = p
         /\ strikeOut' = suggest_strikes(p, p)
    /\ UNCHANGED <<scanVars, expVars, ratingVars>>

NextStrikes == StrikeCall

SpecStrikes == Init /\ [][NextStrikes]_vars

----------------------------------------------------------------------------
(* Properties                                                              *)

\* The latest call got past the four pattern gates (line 108 and on).
PastGates == cur.stage \in {"plan_error", "signal"}

\* The latest call is a real call that fetched its rows.
Fetched == cur.stage # "entry" /\ ~cur.src.raises

\* The six gate conditions, read off the rows the call fetched.
GateConds(src) ==
    LET last == src.recent[5]
        prev == src.recent[4]
    IN << Cardinality({k \in 1..4 : RLt(src.recent[k].Close, src.recent[k].Open)}) >= 3,
          RLt(last.Open, prev.Close),
          RGt(last.Close, prev.Open),
          RGt(last.Close, last.Open),
          RGe(BodySizePct(last), RInt(1)),
          RGe(VolumeRatio(src), R(12, 10)) >>

AllGates(src) == \A k \in 1..6 : GateConds(src)[k]

FailedGates(src) == {k \in 1..6 : ~GateConds(src)[k]}

\* How many records of the signal list carry ticker t.
TimesSignalled(t) == Cardinality({k \in 1..Len(signals) : signals[k].ticker = t})

\* C1: get_option_expirations never advances more than 60 days past
\* `today`: the forward scan stops once the dates are collected.
C1_ScanWithinSixtyDays == days_ahead <= 60

\* C2: at the report step every ticker with at least 25 bars that passed
\* all four pattern gates is in the signal list exactly once.
C2_QualifyingTickerSignalledOnce ==
    pc = "done" =>
        \A k \in 1..Len(outcomes) :
            outcomes[k] \in {"plan_error", "signal"} => TimesSignalled(Tickers[k]) = 1

\* C3: a call gets past the pattern gates, and returns a Signal, only when
\* all six gate conditions hold on the last five bars; with any condition
\* false it returns None at one of the gates.
C3_SignalOnlyWhenAllGatesHold ==
    (Fetched /\ cur.src.nbars >= 25) =>
        /\ PastGates => AllGates(cur.src)
        /\ cur.ret # None => AllGates(cur.src)
        /\ ~AllGates(cur.src) =>
              /\ cur.ret = None
              /\ cur.stage \in {"red_gate", "shape_gate", "min_gate"}

\* C3 witness: after a ticker that passed every gate, a call with exactly
\* one gate condition false has returned None.
C3_Witness ==
    /\ i = 2
    /\ outcomes[1] = "plan_error"
    /\ Fetched /\ cur.src.nbars >= 25
    /\ Cardinality(FailedGates(cur.src)) = 1
    /\ cur.ret = None

\* C4: whenever the pattern check qualifies, the last candle is green and
\* its body contains the previous candle's body.
C4_BodyContainsPreviousBody ==
    PastGates =>
        LET last == cur.src.recent[5]
            prev == cur.src.recent[4]
        IN /\ RGt(last.Close, last.Open)
           /\ RLe(last.Open, RMin(prev.Open, prev.Close))
           /\ RGe(last.Close, RMax(prev.Open, prev.Close))

\* C5: calculate_rating returns a value in 1..5 and is non-decreasing in
\* each of its three inputs with the other two held fixed, the -999
\* sentinel counting as the lowest distance.
C5_RatingRangeAndMonotone ==
    ratingIn # <<>> =>
        LET b == ratingIn[1]
            v == ratingIn[2]
            d == ratingIn[3]
        IN /\ ratingOut \in 1..5
           /\ \A b2 \in BodyGrid : RGe(b2, b) => calculate_rating(b2, v, d) >= ratingOut
           /\ \A v2 \in VolGrid : RGe(v2, v) => calculate_rating(b, v2, d) >= ratingOut
           /\ \A d2 \in DistGrid : RGe(d2, d) => calculate_rating(b, v, d2) >= ratingOut

\* C5 witness: a call with the -999 sentinel whose rating rises when only
\* the distance is raised.
C5_Witness ==
    /\ ratingIn # <<>>
    /\ ratingIn[3] = RInt(-999)
    /\ ratingOut = 2
    /\ calculate_rating(ratingIn[1], ratingIn[2], RInt(0)) = 3

\* x is a positive whole multiple of the increment.
PositiveMultiple(x, increment) ==
    LET q == RDiv(x, increment) IN q[2] = 1 /\ q[1] > 0

\* C6: for every positive price suggest_strikes returns ITM < ATM < OTM,
\* all three positive multiples of the price tier's increment.
C6_StrikesOrderedPositiveMultiples ==
    ~IsNaN(strikeIn) =>
        LET inc == IF RLt(strikeIn, RInt(50)) THEN R(5, 2)
                   ELSE IF RLt(strikeIn, RInt(200)) THEN RInt(5) ELSE RInt(10)
        IN /\ RLt(strikeOut.ITM, strikeOut.ATM)
           /\ RLt(strikeOut.ATM, strikeOut.OTM)
           /\ PositiveMultiple(strikeOut.ITM, inc)
           /\ PositiveMultiple(strikeOut.ATM, inc)
           /\ PositiveMultiple(strikeOut.OTM, inc)

\* C7: for each weekday of `today`, get_option_expirations returns exactly
\* 2 dates, each a Friday 3 to 14 days after `today`, strictly increasing.
C7_TwoFridaysInWindow ==
    expPc \in {"returned", "raised"} =>
        /\ expPc = "returned"
        /\ Len(expResult) = 2
        /\ \A k \in 1..Len(expResult) :
              /\ Weekday(expResult[k]) = 4
              /\ 3 <= expResult[k] - today
              /\ expResult[k] - today <= 14
        /\ \A k \in 1..(Len(expResult) - 1) : expResult[k] < expResult[k + 1]

\* The tickers scanned so far whose call returned a Signal, in list order.
RECURSIVE SignalledUpTo(_)
SignalledUpTo(n) ==
    IF n = 0 THEN <<>>
    ELSE IF outcomes[n] = "signal"
         THEN Append(SignalledUpTo(n - 1), Tickers[n])
         ELSE SignalledUpTo(n - 1)

\* C8: a failing ticker (an exception in its call, or fewer than 25 bars)
\* yields no Signal for that ticker only: every ticker is evaluated exactly
\* once in list order, the signal list holds exactly the Signals returned so
\* far, and the run is never aborted nor stuck before the report step.
C8_FailureSkipsOnlyThatTicker ==
    /\ pc # "aborted"
    /\ Len(outcomes) = i
    /\ \A k \in 1..NumTickers : evalCount[k] = (IF k <= i THEN 1 ELSE 0)
    /\ [k \in 1..Len(signals) |-> signals[k].ticker] = SignalledUpTo(i)
    /\ \A k \in 1..i :
          outcomes[k] \in {"fetch_error", "plan_error", "short"}
             => TimesSignalled(Tickers[k]) = 0
    /\ pc = "done" => i = NumTickers
    /\ pc \in {"start", "scan"} => ENABLED Next

\* C8 witness: the report step is reached after the first ticker's call
\* raised and the second ticker had too few bars.
C8_Witness ==
    /\ pc = "done"
    /\ outcomes[1] \in {"fetch_error", "plan_error"}
    /\ outcomes[2] = "short"
    /\ \A k \in 1..NumTickers : evalCount[k] = 1

\* The latest call computed its trade plan from a bar with ATR > 0 and
\* low <= close.
PlanCase ==
    /\ PastGates
    /\ RGt(cur.atr, RInt(0))
    /\ RLe(cur.src.recent[5].Low, cur.src.recent[5].Close)

\* The Signal record built from the latest call's locals.
Recorded == SignalRecord(cur, <<>>, None)

C10_QualifiedRatingAtLeastTwo ==
    PastGates =>
        /\ cur.rating >= 2
        /\ cur.ret # None => cur.ret.rating >= 2

\* C10 witness: a call that passed the gates with the 50-day MA undefined
\* and got rating 2.
C10_Witness ==
    /\ PastGates
    /\ cur.distance_from_ma = RInt(-999)
    /\ cur.rating = 2

====
